---- MODULE Spec2Model ----
(***************************************************************************)
(* A model of app.py, the SEO Content Intelligence tool: the URL           *)
(* validator, the three text acquirers, the analysis pipeline and the two  *)
(* Streamlit flows (single content analysis, competitor comparison).       *)
(*                                                                         *)
(* Python strings are sequences of one-character strings, so that slicing, *)
(* splitting, stripping and lower-casing are computed and not assumed.     *)
(* A call that may raise returns a record with a field exc.  A local       *)
(* variable of the Python code is a parameter of the operator that models  *)
(* the code after its assignment.                                          *)
(***************************************************************************)
EXTENDS Integers, Sequences, FiniteSets, TLC

VARIABLES
    nlp,            \* module global nlp: "None" or the loaded annotator
    kw_model,       \* module global kw_model: "None" or the loaded extractor
    textstat,       \* behaviour of the installed readability library
    input_mode,     \* tab1 radio
    text_area,      \* tab1 "Paste your content" widget
    url,            \* tab1 "Enter blog/article URL" widget
    uploaded_file,  \* tab1 file uploader widget
    url1,           \* tab2 "Competitor A URL"
    url2,           \* tab2 "Competitor B URL"
    clicked,        \* the button that is TRUE in the last run, if any
    cache,          \* st.cache_data of extract_text_from_url
    fetchLog,       \* calls of extract_text_from_url made by the last run
    analyzeLog,     \* calls of analyze_text made by the last run
    msgs,           \* st.error / st.warning / st.success of the last run
    inp,            \* argument of the function applied (SpecUrl, SpecFile, SpecAnalyze)
    out             \* its outcome

vars == <<nlp, kw_model, textstat, input_mode, text_area, url, uploaded_file,
          url1, url2, clicked, cache, fetchLog, analyzeLog, msgs, inp, out>>

uiVars == <<input_mode, text_area, url, uploaded_file, url1, url2, clicked,
            cache, fetchLog, analyzeLog, msgs>>

(***************************************************************************)
(* Bounds of the model.                                                    *)
(***************************************************************************)
MaxUrlLen == 5
MaxSegs == 3
MaxBytes == 3
MaxDocParas == 2

(***************************************************************************)
(* Program constants.                                                      *)
(***************************************************************************)
TopN == 10
TitleLen == 60
DescLen == 160
MinParagraphLen == 40
MinFetchedLen == 100

(***************************************************************************)
(* Python str helpers.                                                     *)
(***************************************************************************)
Rep(c, n) == [i \in 1..n |-> c]

Take(s, n) == SubSeq(s, 1, IF n < Len(s) THEN n ELSE Len(s))

Drop(s, n) == SubSeq(s, n + 1, Len(s))

UpperChars ==
    {"A","B","C","D","E","F","G","H","I","J","K","L","M",
     "N","O","P","Q","R","S","T","U","V","W","X","Y","Z"}

LowerChars ==
    {"a","b","c","d","e","f","g","h","i","j","k","l","m",
     "n","o","p","q","r","s","t","u","v","w","x","y","z"}

DigitChars == {"0","1","2","3","4","5","6","7","8","9"}

ToLower ==
    [c \in UpperChars |->
        CASE c = "A" -> "a" [] c = "B" -> "b" [] c = "C" -> "c" [] c = "D" -> "d"
          [] c = "E" -> "e" [] c = "F" -> "f" [] c = "G" -> "g" [] c = "H" -> "h"
          [] c = "I" -> "i" [] c = "J" -> "j" [] c = "K" -> "k" [] c = "L" -> "l"
          [] c = "M" -> "m" [] c = "N" -> "n" [] c = "O" -> "o" [] c = "P" -> "p"
          [] c = "Q" -> "q" [] c = "R" -> "r" [] c = "S" -> "s" [] c = "T" -> "t"
          [] c = "U" -> "u" [] c = "V" -> "v" [] c = "W" -> "w" [] c = "X" -> "x"
          [] c = "Y" -> "y" [] c = "Z" -> "z"]

LowerUsing(map, c) == IF c \in DOMAIN map THEN map[c] ELSE c

\* str.lower()
Lower(s) == [i \in 1..Len(s) |-> LowerUsing(ToLower, s[i])]

WhiteSpace == {" ", "\n", "\t", "\r"}

IsSpace(c) == c \in WhiteSpace

\* index of the first position >= from holding a character of set cs, or 0
FindIn(s, cs, from) ==
    IF \E i \in from..Len(s) : s[i] \in cs
    THEN CHOOSE i \in from..Len(s) :
            s[i] \in cs /\ \A j \in from..(i - 1) : s[j] \notin cs
    ELSE 0

\* str.find(c) + 1
Find(s, c) == FindIn(s, {c}, 1)

Contains(s, c) == \E i \in 1..Len(s) : s[i] = c

\* str.startswith(p)
StartsWith(s, p) == Len(s) >= Len(p) /\ SubSeq(s, 1, Len(p)) = p

\* str.endswith(p)
EndsWith(s, p) ==
    Len(s) >= Len(p) /\ SubSeq(s, Len(s) - Len(p) + 1, Len(s)) = p

RECURSIVE SplitOn(_, _)
SplitAt(s, c, i) ==
    IF i = 0 THEN <<s>>
    ELSE <<SubSeq(s, 1, i - 1)>> \o SplitOn(Drop(s, i), c)

\* str.split(sep) for a one-character separator: never the empty list
SplitOn(s, c) == SplitAt(s, c, Find(s, c))

LStrip(s) ==
    IF \E i \in 1..Len(s) : ~IsSpace(s[i])
    THEN SubSeq(s, CHOOSE i \in 1..Len(s) :
                      ~IsSpace(s[i]) /\ \A j \in 1..(i - 1) : IsSpace(s[j]),
                Len(s))
    ELSE <<>>

RStrip(s) ==
    IF \E i \in 1..Len(s) : ~IsSpace(s[i])
    THEN SubSeq(s, 1, CHOOSE i \in 1..Len(s) :
                         ~IsSpace(s[i]) /\ \A j \in (i + 1)..Len(s) : IsSpace(s[j]))
    ELSE <<>>

\* str.strip()
Strip(s) == RStrip(LStrip(s))

RECURSIVE SplitWs(_)
SplitWsAt(t, i) ==
    IF t = <<>> THEN <<>>
    ELSE IF i = 0 THEN <<t>>
    ELSE <<SubSeq(t, 1, i - 1)>> \o SplitWs(Drop(t, i))

SplitWsStripped(t) == SplitWsAt(t, FindIn(t, WhiteSpace, 1))

\* str.split() without argument: runs of whitespace separate, no empty token
SplitWs(s) == SplitWsStripped(LStrip(s))

\* sep.join(parts)
RECURSIVE Join(_, _)
Join(sep, parts) ==
    IF parts = <<>> THEN <<>>
    ELSE IF Len(parts) = 1 THEN parts[1]
    ELSE parts[1] \o sep \o Join(sep, Tail(parts))

\* list.count(x)
RECURSIVE Count(_, _)
Count(list, x) ==
    IF list = <<>> THEN 0
    ELSE (IF list[1] = x THEN 1 ELSE 0) + Count(Tail(list), x)

RECURSIVE Concat(_)
Concat(parts) ==
    IF parts = <<>> THEN <<>> ELSE parts[1] \o Concat(Tail(parts))

RECURSIVE SeqsUpTo(_, _)
ExtendAll(shorter, S) == shorter \cup {Append(s, x) : s \in shorter, x \in S}

\* all sequences over S of length at most n
SeqsUpTo(S, n) == IF n = 0 THEN {<<>>} ELSE ExtendAll(SeqsUpTo(S, n - 1), S)

NA == <<"N", "/", "A">>

Ellipsis == <<".", ".", ".">>

(***************************************************************************)
(* urllib.parse.urlparse, as far as scheme and netloc go.                  *)
(***************************************************************************)
SchemeChars == LowerChars \cup UpperChars \cup DigitChars \cup {"+", "-", "."}

\* url[:i] is a scheme: i > 0, a letter first, scheme characters only
HasScheme(u, i) ==
    /\ i > 1
    /\ u[1] \in LowerChars \cup UpperChars
    /\ \A k \in 1..(i - 1) : u[k] \in SchemeChars

\* _splitnetloc(url, 2) when url[:2] == '//'
NetlocAt(rest, delim) ==
    IF Take(rest, 2) # <<"/", "/">> THEN <<>>
    ELSE IF delim = 0 THEN Drop(rest, 2)
    ELSE SubSeq(rest, 3, delim - 1)

Netloc(rest) == NetlocAt(rest, FindIn(rest, {"/", "?", "#"}, 3))

\* raise ValueError("Invalid IPv6 URL") on an unmatched bracket
UrlResult(scheme, netloc) ==
    IF Contains(netloc, "[") # Contains(netloc, "]")
    THEN [exc |-> TRUE, scheme |-> <<>>, netloc |-> <<>>]
    ELSE [exc |-> FALSE, scheme |-> scheme, netloc |-> netloc]

UrlSplit(u, i, hasScheme) ==
    UrlResult(IF hasScheme THEN Lower(SubSeq(u, 1, i - 1)) ELSE <<>>,
              Netloc(IF hasScheme THEN Drop(u, i) ELSE u))

UrlSplitAt(u, i) == UrlSplit(u, i, HasScheme(u, i))

urlparse(u) == UrlSplitAt(u, Find(u, ":"))

\* Python truth value of a str
Truthy(s) == s # <<>>

\* builtin all() over a list of str
all(list) == \A i \in 1..Len(list) : Truthy(list[i])

AnySchemeNetloc(result) ==
    IF result.exc THEN [exc |-> TRUE, val |-> FALSE]
    ELSE [exc |-> FALSE, val |-> Truthy(result.scheme) \/ Truthy(result.netloc)]

\* return all([result.scheme, result.netloc])
AllSchemeNetloc(result) ==
    IF result.exc THEN [exc |-> TRUE, val |-> FALSE]
    ELSE [exc |-> FALSE, val |-> all(<<result.scheme, result.netloc>>)]

\* except: return False
ExceptFalse(r) == IF r.exc THEN [exc |-> FALSE, val |-> FALSE] ELSE r

is_valid_url_any(u) == ExceptFalse(AnySchemeNetloc(urlparse(u)))

is_valid_url(u) == ExceptFalse(AllSchemeNetloc(urlparse(u)))

(***************************************************************************)
(* extract_text_from_url: the GET and the HTML parse are the environment;  *)
(* a response is either an exception or the page's <p> texts.              *)
(***************************************************************************)
ErrorPrefix == <<"E", "R", "R", "O", "R">>

\* [p.get_text() for p in soup.find_all('p') if len(p.get_text()) > 40]
RECURSIVE LongParagraphs(_)
LongParagraphs(ps) ==
    IF ps = <<>> THEN <<>>
    ELSE (IF Len(ps[1]) > MinParagraphLen THEN <<ps[1]>> ELSE <<>>)
         \o LongParagraphs(Tail(ps))

\* try: ... return "\n".join(paragraphs)
\* except Exception as e: return f"ERROR: {str(e)}"
extract_text_from_url(resp) ==
    IF resp.exc THEN ErrorPrefix \o <<":", " ">> \o resp.msg
    ELSE Join(<<"\n">>, LongParagraphs(resp.paragraphs))

(***************************************************************************)
(* extract_text_from_file.  A file is its name, its bytes and what         *)
(* docx.Document makes of it (an exception, or the paragraphs).            *)
(* The byte alphabet of the model is ASCII, the two bytes of e-acute and   *)
(* the never-valid byte 255; "e_acute" stands for that one character.      *)
(***************************************************************************)
Chr(cp) ==
    CASE cp = 97 -> "a"
      [] cp = 46 -> "."
      [] cp = 32 -> " "
      [] cp = 10 -> "\n"
      [] cp = 233 -> "e_acute"

Raised == [exc |-> TRUE, val |-> <<>>]

Returned(v) == [exc |-> FALSE, val |-> v]

\* the decoded rest after one more character
Prepend(c, r) == IF r.exc THEN r ELSE Returned(<<c>> \o r.val)

\* bytes.decode("utf-8"): one- and two-byte sequences, anything else raises
RECURSIVE decode_utf8(_)
decode_utf8(bs) ==
    IF bs = <<>> THEN Returned(<<>>)
    ELSE IF bs[1] < 128 THEN Prepend(Chr(bs[1]), decode_utf8(Tail(bs)))
    ELSE IF /\ bs[1] >= 194 /\ bs[1] <= 223
            /\ Len(bs) >= 2 /\ bs[2] >= 128 /\ bs[2] <= 191
    THEN Prepend(Chr((bs[1] - 192) * 64 + (bs[2] - 128)), decode_utf8(Drop(bs, 2)))
    ELSE Raised

DotTxt == <<".", "t", "x", "t">>

DotDocx == <<".", "d", "o", "c", "x">>

\* the try block and the final return ""
extract_text_from_file_body(f) ==
    IF EndsWith(f.name, DotTxt) THEN decode_utf8(f.bytes)
    ELSE IF EndsWith(f.name, DotDocx)
    THEN IF f.docx.exc THEN Raised ELSE Returned(Join(<<"\n">>, f.docx.paragraphs))
    ELSE Returned(<<>>)

Propagate(r) == [exc |-> r.exc, val |-> r.val, errs |-> <<>>]

\* except Exception as e: st.error(...), then return ""
ExceptFileError(r) ==
    IF r.exc THEN [exc |-> FALSE, val |-> <<>>, errs |-> <<"File reading error">>]
    ELSE [exc |-> FALSE, val |-> r.val, errs |-> <<>>]

extract_text_from_file_uncaught(f) == Propagate(extract_text_from_file_body(f))

extract_text_from_file(f) == ExceptFileError(extract_text_from_file_body(f))

(***************************************************************************)
(* The loaded models.  spaCy, KeyBERT and textstat are deterministic       *)
(* functions of the text; which functions they are is the environment's    *)
(* choice, made once at start-up.                                          *)
(***************************************************************************)
RECURSIVE Dedup(_)
AppendNew(front, x) ==
    IF \E i \in 1..Len(front) : front[i] = x THEN front ELSE Append(front, x)

\* the list without its repeated elements, first occurrences kept
Dedup(list) ==
    IF list = <<>> THEN <<>>
    ELSE AppendNew(Dedup(SubSeq(list, 1, Len(list) - 1)), list[Len(list)])

Reverse(list) == [i \in 1..Len(list) |-> list[Len(list) + 1 - i]]

\* a multi-word phrase, which no whitespace token equals
Foreign == <<"a", " ", "b">>

\* relevance scores in hundredths, descending with the rank
WithScores(phrases) ==
    [i \in 1..Len(phrases) |-> [kw |-> phrases[i], score |-> 100 - 5 * i]]

\* kw_model.extract_keywords(input_text, top_n=10); None has no such method.
\* kwTokens ranks the lower-cased words; kwMixed keeps their case and puts a
\* phrase first
extract_keywords(input_text) ==
    CASE kw_model = "None" -> Raised
      [] kw_model = "kwTokens" ->
            Returned(WithScores(Take(Dedup(SplitWs(Lower(input_text))), TopN)))
      [] kw_model = "kwMixed" ->
            Returned(WithScores(Take(<<Foreign>> \o Dedup(Reverse(SplitWs(input_text))),
                                     TopN)))

\* the entity spans and noun chunks the annotator finds among the words
DocOf(tokens) ==
    [exc |-> FALSE,
     ents |-> {tokens[i] : i \in {k \in 1..Len(tokens) : tokens[k][1] \in UpperChars}},
     noun_chunks |-> {tokens[i] : i \in 1..Len(tokens)}]

\* doc = nlp(input_text); None is not callable
nlp_call(input_text) ==
    IF nlp = "None" THEN [exc |-> TRUE, ents |-> {}, noun_chunks |-> {}]
    ELSE DocOf(SplitWs(input_text))

Num(n) == <<n>>

ReadabilityOf(words, sents) ==
    IF textstat = "strict" /\ words = 0
    THEN [exc |-> TRUE, score |-> Num(0), grade |-> Num(0)]
    ELSE [exc |-> FALSE, score |-> Num(words), grade |-> Num(sents)]

\* flesch_reading_ease / flesch_kincaid_grade: a strict build raises on a text
\* without words, a lenient one scores it
readability(input_text) ==
    ReadabilityOf(Len(SplitWs(input_text)), Len(SplitOn(input_text, ".")))

\* except: reading_score = reading_grade = "N/A"
ExceptNA(read) ==
    IF read.exc THEN [score |-> NA, grade |-> NA]
    ELSE [score |-> read.score, grade |-> read.grade]

RoundHalfEven(q, r, n) ==
    IF 2 * r < n THEN q
    ELSE IF 2 * r > n THEN q + 1
    ELSE IF q % 2 = 0 THEN q ELSE q + 1

\* round(c / n * 100, 2), in hundredths of a percent
Round2(c, n) == RoundHalfEven((10000 * c) \div n, (10000 * c) % n, n)

EmptyResult ==
    [keywords |-> <<>>, density_info |-> <<>>, entities |-> {}, noun_chunks |-> {},
     meta_title |-> NA, meta_description |-> NA,
     reading_score |-> NA, reading_grade |-> NA]

TitleFromUncut(sentences) ==
    IF sentences # <<>> THEN sentences[1] \o Ellipsis ELSE NA

\* meta_title = sentences[0][:60] + "..." if sentences else "N/A"
TitleFrom(sentences) ==
    IF sentences # <<>> THEN Take(sentences[1], TitleLen) \o Ellipsis ELSE NA

\* sentences = input_text.split(".")
meta_title_of(input_text) == TitleFrom(SplitOn(input_text, "."))

\* [:160] + "..."
DescriptionFrom(stripped) == Take(stripped, DescLen) \o Ellipsis

\* meta_description = input_text.strip()[:160] + "..."
meta_description_of(input_text) == DescriptionFrom(Strip(input_text))

density_info_case_sensitive(word_list, keywords) ==
    [i \in 1..Len(keywords) |->
        [kw |-> keywords[i].kw,
         density |-> Round2(Count(word_list, keywords[i].kw), Len(word_list))]]

density_info_skipping_absent(word_list, keywords) ==
    SelectSeq([i \in 1..Len(keywords) |->
                  [kw |-> keywords[i].kw,
                   density |-> Round2(Count(word_list, Lower(keywords[i].kw)),
                                      Len(word_list))]],
              LAMBDA e : e.density > 0)

\* [(kw, round(word_list.count(kw.lower()) / len(word_list) * 100, 2))
\*  for kw, _ in keywords]
density_info_of(word_list, keywords) ==
    [i \in 1..Len(keywords) |->
        [kw |-> keywords[i].kw,
         density |-> Round2(Count(word_list, Lower(keywords[i].kw)), Len(word_list))]]

\* the try block of analyze_text, after doc, keywords, the readability and
\* word_list = input_text.lower().split() are known
AnalyzeWith(input_text, doc, kws, read, word_list) ==
    IF doc.exc \/ kws.exc THEN Raised
    ELSE IF kws.val # <<>> /\ word_list = <<>> THEN Raised
    ELSE Returned(
            [keywords |-> kws.val,
             density_info |-> density_info_of(word_list, kws.val),
             entities |-> {e \in doc.ents : Len(Strip(e)) > 1},
             noun_chunks |-> {Lower(c) : c \in {k \in doc.noun_chunks : Len(Strip(k)) > 3}},
             meta_title |-> meta_title_of(input_text),
             meta_description |-> meta_description_of(input_text),
             reading_score |-> read.score,
             reading_grade |-> read.grade])

analyze_text_body(input_text) ==
    AnalyzeWith(input_text, nlp_call(input_text), extract_keywords(input_text),
                ExceptNA(readability(input_text)), SplitWs(Lower(input_text)))

PropagateAnalysis(r) ==
    [exc |-> r.exc, val |-> IF r.exc THEN EmptyResult ELSE r.val, errs |-> <<>>]

\* except Exception as e: st.error(...); return [], [], [], [], "N/A", ...
ExceptEmptyResult(r) ==
    IF r.exc
    THEN [exc |-> FALSE, val |-> EmptyResult, errs |-> <<"Text analysis failed">>]
    ELSE [exc |-> FALSE, val |-> r.val, errs |-> <<>>]

analyze_text_uncaught(input_text) == PropagateAnalysis(analyze_text_body(input_text))

analyze_text(input_text) == ExceptEmptyResult(analyze_text_body(input_text))

(***************************************************************************)
(* Inputs.                                                                 *)
(***************************************************************************)
UrlChars == {"h", "1", ":", "/", "["}

UrlHttpsExample ==
    <<"h","t","t","p","s",":","/","/","e","x","a","m","p","l","e",".","c","o","m","/","a">>

UrlNoScheme == <<"e","x","a","m","p","l","e",".","c","o","m">>

UrlNoHost == <<"f","t","p",":","/","/">>

UrlA == <<"h","t","t","p",":","/","/","a">>

UrlB == <<"h","t","t","p",":","/","/","b">>

UrlInputs ==
    SeqsUpTo(UrlChars, MaxUrlLen) \cup {UrlHttpsExample, UrlNoScheme, UrlNoHost}

LongWord == Rep("c", 81)

Segs == {<<"a">>, <<"B">>, <<" ">>, <<".">>, <<"b", " ", "b", " ">>, LongWord}

CatsText ==
    <<"C","a","t","s"," ","a","r","e"," ","s","m","a","l","l"," ",
      "m","a","m","m","a","l","s","."," ","C","a","t","s"," ","a","r","e"," ",
      "p","o","p","u","l","a","r"," ","p","e","t","s",".">>

Texts == {Concat(ss) : ss \in SeqsUpTo(Segs, MaxSegs)} \cup {CatsText}

NlpModels == {"None", "en_core_web_sm"}

KwModels == {"None", "kwTokens", "kwMixed"}

TextstatBuilds == {"lenient", "strict"}

NameTxt == <<"a", ".", "t", "x", "t">>

NameDocx == <<"a", ".", "d", "o", "c", "x">>

NamePdf == <<"n", "o", "t", "e", "s", ".", "p", "d", "f">>

NameUpperTxt == <<"a", ".", "T", "X", "T">>

FileNames == {NameTxt, NameDocx, NamePdf, NameUpperTxt}

FileBytes == SeqsUpTo({97, 10, 195, 169, 255}, MaxBytes)

DocParagraphs == SeqsUpTo({<<>>, <<"a">>, <<"a", " ", "B", ".">>}, MaxDocParas)

DocxParses ==
    {[exc |-> TRUE, paragraphs |-> <<>>]}
    \cup {[exc |-> FALSE, paragraphs |-> ps] : ps \in DocParagraphs}

Files ==
    {[present |-> TRUE, name |-> n, bytes |-> b, docx |-> d] :
        n \in FileNames, b \in FileBytes, d \in DocxParses}

NoFile ==
    [present |-> FALSE, name |-> <<>>, bytes |-> <<>>,
     docx |-> [exc |-> TRUE, paragraphs |-> <<>>]]

Pending == [done |-> FALSE]

(***************************************************************************)
(* The session before any interaction.                                     *)
(***************************************************************************)
UiUrls == {<<>>, UrlNoScheme, UrlA, UrlB}

NotCached == [hit |-> FALSE, text |-> <<>>, raised |-> FALSE]

InitWidgets ==
    /\ input_mode = "Paste Text"
    /\ text_area = <<>>
    /\ url = <<>>
    /\ uploaded_file = NoFile
    /\ url1 = <<>>
    /\ url2 = <<>>
    /\ clicked = "none"
    /\ cache = [u \in UiUrls |-> NotCached]
    /\ fetchLog = <<>>
    /\ analyzeLog = <<>>
    /\ msgs = <<>>

(***************************************************************************)
(* is_valid_url applied to one URL.                                        *)
(***************************************************************************)
InitUrl ==
    /\ InitWidgets
    /\ nlp = "en_core_web_sm" /\ kw_model = "kwTokens" /\ textstat = "lenient"
    /\ inp \in UrlInputs
    /\ out = Pending

ValidateUrl ==
    /\ ~out.done
    /\ out' = [done |-> TRUE, r |-> is_valid_url(inp)]
    /\ UNCHANGED <<nlp, kw_model, textstat, inp, uiVars>>

NextUrl == ValidateUrl

SpecUrl == InitUrl /\ [][NextUrl]_vars

(***************************************************************************)
(* extract_text_from_file applied to one file.                             *)
(***************************************************************************)
InitFile ==
    /\ InitWidgets
    /\ nlp = "en_core_web_sm" /\ kw_model = "kwTokens" /\ textstat = "lenient"
    /\ inp \in Files
    /\ out = Pending

ExtractFile ==
    /\ ~out.done
    /\ out' = [done |-> TRUE, r |-> extract_text_from_file(inp)]
    /\ UNCHANGED <<nlp, kw_model, textstat, inp, uiVars>>

NextFile == ExtractFile

SpecFile == InitFile /\ [][NextFile]_vars

(***************************************************************************)
(* analyze_text applied to one text, under every combination of models.    *)
(***************************************************************************)
InitAnalyze ==
    /\ InitWidgets
    /\ nlp \in NlpModels
    /\ kw_model \in KwModels
    /\ textstat \in TextstatBuilds
    /\ inp \in Texts
    /\ out = Pending

Analyze ==
    /\ ~out.done
    /\ out' = [done |-> TRUE, r |-> analyze_text(inp)]
    /\ UNCHANGED <<nlp, kw_model, textstat, inp, uiVars>>

NextAnalyze == Analyze

SpecAnalyze == InitAnalyze /\ [][NextAnalyze]_vars

(***************************************************************************)
(* The Streamlit script.  Every interaction reruns it from top to bottom   *)
(* with the widgets' values; at most one button is TRUE in a run.          *)
(***************************************************************************)
UiTexts == {<<>>, <<"a", " ", "B", ".">>}

UiFiles ==
    {[present |-> TRUE, name |-> NameTxt, bytes |-> <<97, 32, 97>>,
      docx |-> [exc |-> TRUE, paragraphs |-> <<>>]]}

TimeoutMsg == <<"t", "i", "m", "e", "o", "u", "t">>

Page(ps) == [exc |-> FALSE, msg |-> <<>>, paragraphs |-> ps]

\* what requests.get and BeautifulSoup may give for a URL: site a is down,
\* or serves an article, or an article that opens with the word ERROR;
\* site b serves pages with too little paragraph text
Responses(u) ==
    IF u = UrlB
    THEN {Page(<<Rep("x", 20), Rep("y", 20), Rep("z", 20)>>),
          Page(<<Rep("x", 40), Rep("y", 49), Rep("z", 49)>>)}
    ELSE {[exc |-> TRUE, msg |-> TimeoutMsg, paragraphs |-> <<>>],
          Page(<<Rep("x", 40), Rep("y", 49), Rep("z", 50)>>),
          Page(<<ErrorPrefix \o Rep("x", 95)>>)}

\* @st.cache_data: a hit returns the stored text, a miss runs the function
\* and stores what it returned (raised is kept for the record only)
CacheLookup(c, u) ==
    IF c[u].hit THEN {c[u]}
    ELSE {[hit |-> TRUE, text |-> extract_text_from_url(r), raised |-> r.exc] :
            r \in Responses(u)}

\* elif input_mode == "Enter URL": ... if url and is_valid_url(url):
Tab1ShouldFetch(mode, u) ==
    mode = "Enter URL" /\ Truthy(u) /\ is_valid_url(u).val

\* if not (url1 and url2)
Tab2BothEntered(u1, u2) == Truthy(u1) /\ Truthy(u2)

Tab2EitherValid(u1, u2) == is_valid_url(u1).val \/ is_valid_url(u2).val

\* is_valid_url(url1) and is_valid_url(url2)
Tab2BothValid(u1, u2) == is_valid_url(u1).val /\ is_valid_url(u2).val

\* the three-way branch on the fetched text of tab1
Tab1FetchOutcome(fetched) ==
    IF StartsWith(fetched, ErrorPrefix) THEN "fetch_failed"
    ELSE IF Len(fetched) < MinFetchedLen THEN "not_enough_text"
    ELSE "fetched"

FetchEntry(flow, u, e) ==
    [flow |-> flow, url |-> u, text |-> e.text, raised |-> e.raised]

AnalyzeEntry(flow, text, fetched, raised, res) ==
    [flow |-> flow, text |-> text, fetched |-> fetched, raised |-> raised,
     result |-> res.val]

NoFileResult == [exc |-> FALSE, val |-> <<>>, errs |-> <<>>]

\* the text tab1 hands to the Analyze button
Tab1InputText(mode, t, outcome1, e1, file) ==
    CASE mode = "Paste Text" -> t
      [] mode = "Enter URL" -> IF outcome1 = "fetched" THEN e1.text ELSE <<>>
      [] mode = "Upload File" -> file.val

Tab1FetchMsgs(outcome1) ==
    CASE outcome1 = "fetch_failed" -> <<"Failed to fetch from the URL.">>
      [] outcome1 = "not_enough_text" -> <<"Not enough text found.">>
      [] outcome1 = "fetched" -> <<"Content fetched.">>
      [] OTHER -> <<>>

\* if st.button("Analyze Content"): ...
Tab1Analyze(mode, b1, input_text, raised) ==
    IF ~b1 THEN [log |-> <<>>, msgs |-> <<>>]
    ELSE IF Strip(input_text) = <<>>
    THEN [log |-> <<>>, msgs |-> <<"Please enter some content.">>]
    ELSE IF kw_model = "None" \/ nlp = "None"
    THEN [log |-> <<>>, msgs |-> <<"NLP model or KeyBERT not loaded.">>]
    ELSE [log |-> <<AnalyzeEntry("single", input_text, mode = "Enter URL", raised,
                                 analyze_text(input_text))>>,
          msgs |-> analyze_text(input_text).errs]

\* with tab1: ...
Tab1(mode, u, b1, fetch1, e1, file, input_text, outcome1) ==
    [cache |-> IF fetch1 THEN [cache EXCEPT ![u] = e1] ELSE cache,
     fetchLog |-> IF fetch1 THEN <<FetchEntry("single", u, e1)>> ELSE <<>>,
     msgs |-> Tab1FetchMsgs(outcome1) \o file.errs,
     analysis |-> Tab1Analyze(mode, b1, input_text, fetch1 /\ e1.raised)]

Tab2Msgs(u1, u2, b2) ==
    IF ~b2 THEN <<>>
    ELSE IF ~Tab2BothEntered(u1, u2) THEN <<"Please enter both URLs.">>
    ELSE <<"Invalid URL(s).">>

\* text1 = extract_text_from_url(url1) ... data2 = analyze_text(text2)
Tab2Compare(r1, u1, u2, e2, e3, d1, d2) ==
    /\ cache' = [r1.cache EXCEPT ![u1] = e2, ![u2] = e3]
    /\ fetchLog' = r1.fetchLog
                   \o <<FetchEntry("compare", u1, e2), FetchEntry("compare", u2, e3)>>
    /\ analyzeLog' = r1.analysis.log
                     \o <<AnalyzeEntry("compare", e2.text, TRUE, e2.raised, d1),
                          AnalyzeEntry("compare", e3.text, TRUE, e3.raised, d2)>>
    /\ msgs' = r1.msgs \o r1.analysis.msgs \o d1.errs \o d2.errs

\* with tab2: ...
Tab2(r1, u1, u2, b2) ==
    IF b2 /\ Tab2BothEntered(u1, u2) /\ Tab2BothValid(u1, u2)
    THEN \E e2 \in CacheLookup(r1.cache, u1) :
         \E e3 \in CacheLookup([r1.cache EXCEPT ![u1] = e2], u2) :
         \E d1 \in {analyze_text(e2.text)} :
         \E d2 \in {analyze_text(e3.text)} :
            Tab2Compare(r1, u1, u2, e2, e3, d1, d2)
    ELSE /\ cache' = r1.cache
         /\ fetchLog' = r1.fetchLog
         /\ analyzeLog' = r1.analysis.log
         /\ msgs' = r1.msgs \o r1.analysis.msgs \o Tab2Msgs(u1, u2, b2)

\* one run of the script, top to bottom, with the widgets' new values
RunScript ==
    \E fetch1 \in {Tab1ShouldFetch(input_mode', url')} :
    \E e1 \in (IF fetch1 THEN CacheLookup(cache, url') ELSE {NotCached}) :
    \E outcome1 \in {IF fetch1 THEN Tab1FetchOutcome(e1.text) ELSE "none"} :
    \E file \in {IF input_mode' = "Upload File" /\ uploaded_file'.present
                 THEN extract_text_from_file(uploaded_file') ELSE NoFileResult} :
    \E input_text \in {Tab1InputText(input_mode', text_area', outcome1, e1, file)} :
    \E r1 \in {Tab1(input_mode', url', clicked' = "analyze", fetch1, e1, file,
                    input_text, outcome1)} :
        Tab2(r1, url1', url2', clicked' = "compare")

Init ==
    /\ InitWidgets
    /\ nlp \in NlpModels
    /\ kw_model \in {"None", "kwTokens"}
    /\ textstat \in TextstatBuilds
    /\ inp = <<>>
    /\ out = Pending

\* st.radio: the widgets of the other modes are not rendered and lose their value
SelectMode(m) ==
    /\ m # input_mode
    /\ input_mode' = m
    /\ text_area' = <<>>
    /\ url' = <<>>
    /\ uploaded_file' = NoFile
    /\ clicked' = "none"
    /\ UNCHANGED <<url1, url2>>
    /\ RunScript
    /\ UNCHANGED <<nlp, kw_model, textstat, inp, out>>

EditText(t) ==
    /\ input_mode = "Paste Text"
    /\ t # text_area
    /\ text_area' = t
    /\ clicked' = "none"
    /\ UNCHANGED <<input_mode, url, uploaded_file, url1, url2>>
    /\ RunScript
    /\ UNCHANGED <<nlp, kw_model, textstat, inp, out>>

EditUrl(u) ==
    /\ input_mode = "Enter URL"
    /\ u # url
    /\ url' = u
    /\ clicked' = "none"
    /\ UNCHANGED <<input_mode, text_area, uploaded_file, url1, url2>>
    /\ RunScript
    /\ UNCHANGED <<nlp, kw_model, textstat, inp, out>>

UploadFile(f) ==
    /\ input_mode = "Upload File"
    /\ f # uploaded_file
    /\ uploaded_file' = f
    /\ clicked' = "none"
    /\ UNCHANGED <<input_mode, text_area, url, url1, url2>>
    /\ RunScript
    /\ UNCHANGED <<nlp, kw_model, textstat, inp, out>>

EditUrl1(u) ==
    /\ u # url1
    /\ url1' = u
    /\ clicked' = "none"
    /\ UNCHANGED <<input_mode, text_area, url, uploaded_file, url2>>
    /\ RunScript
    /\ UNCHANGED <<nlp, kw_model, textstat, inp, out>>

EditUrl2(u) ==
    /\ u # url2
    /\ url2' = u
    /\ clicked' = "none"
    /\ UNCHANGED <<input_mode, text_area, url, uploaded_file, url1>>
    /\ RunScript
    /\ UNCHANGED <<nlp, kw_model, textstat, inp, out>>

ClickAnalyze ==
    /\ clicked' = "analyze"
    /\ UNCHANGED <<input_mode, text_area, url, uploaded_file, url1, url2>>
    /\ RunScript
    /\ UNCHANGED <<nlp, kw_model, textstat, inp, out>>

ClickCompare ==
    /\ clicked' = "compare"
    /\ UNCHANGED <<input_mode, text_area, url, uploaded_file, url1, url2>>
    /\ RunScript
    /\ UNCHANGED <<nlp, kw_model, textstat, inp, out>>

Next ==
    \/ \E m \in {"Paste Text", "Enter URL", "Upload File"} : SelectMode(m)
    \/ \E t \in UiTexts : EditText(t)
    \/ \E u \in UiUrls : EditUrl(u)
    \/ \E f \in UiFiles \cup {NoFile} : UploadFile(f)
    \/ \E u \in UiUrls : EditUrl1(u)
    \/ \E u \in UiUrls : EditUrl2(u)
    \/ ClickAnalyze
    \/ ClickCompare

Spec == Init /\ [][Next]_vars

(***************************************************************************)
(* The properties.                                                         *)
(***************************************************************************)
FetchFailedMsg == "Failed to fetch from the URL."

InvalidUrlsMsg == "Invalid URL(s)."

Reported(m) == \E i \in 1..Len(msgs) : msgs[i] = m

CompareFetches == {i \in 1..Len(fetchLog) : fetchLog[i].flow = "compare"}

\* C1: in every flow that fetches a URL, analyze_text is never invoked on
\* fetched text shorter than 100 characters.
C1_ShortFetchedTextNeverAnalyzed ==
    \A i \in 1..Len(analyzeLog) :
        analyzeLog[i].fetched => Len(analyzeLog[i].text) >= MinFetchedLen

\* C2: a fetch is reported as a fetch failure if and only if it raised: a
\* fetch that raised is reported and its error description is never analysed
\* as document text, and a fetch that did not raise is never reported as one.
C2_FetchFailureIffRaised ==
    /\ \A i \in 1..Len(fetchLog) :
          fetchLog[i].raised => Reported(FetchFailedMsg)
    /\ \A i \in 1..Len(fetchLog) :
          (fetchLog[i].flow = "single" /\ Reported(FetchFailedMsg)) => fetchLog[i].raised
    /\ \A i \in 1..Len(analyzeLog) : ~analyzeLog[i].raised

\* C3: extract_text_from_url is never called with a URL that is_valid_url
\* rejects; the comparison fetches nothing unless both URLs are entered and
\* valid, and reports an invalid URL as a validation failure.
C3_NoFetchOfInvalidUrl ==
    /\ \A i \in 1..Len(fetchLog) :
          Truthy(fetchLog[i].url) /\ is_valid_url(fetchLog[i].url).val
    /\ CompareFetches # {} =>
          /\ Truthy(url1) /\ Truthy(url2)
          /\ is_valid_url(url1).val /\ is_valid_url(url2).val
    /\ (/\ clicked = "compare"
        /\ Truthy(url1) /\ Truthy(url2)
        /\ ~(is_valid_url(url1).val /\ is_valid_url(url2).val))
          => Reported(InvalidUrlsMsg) /\ CompareFetches = {}

C3_Witness ==
    /\ clicked = "compare"
    /\ url1 = UrlA
    /\ url2 = UrlNoScheme
    /\ Reported(InvalidUrlsMsg)
    /\ cache[UrlA].hit

\* C4: is_valid_url returns true iff the parsed URL has a non-empty scheme and
\* a non-empty netloc, and returns false without raising otherwise.
C4_ValidIffSchemeAndNetloc ==
    out.done =>
        /\ ~out.r.exc
        /\ out.r.val = (/\ ~urlparse(inp).exc
                        /\ urlparse(inp).scheme # <<>>
                        /\ urlparse(inp).netloc # <<>>)
        /\ inp = UrlHttpsExample => out.r.val
        /\ inp \in {UrlNoScheme, UrlNoHost} => ~out.r.val

C4_Witness ==
    /\ out.done
    /\ inp = UrlNoHost
    /\ urlparse(inp).scheme = <<"f", "t", "p">>
    /\ ~out.r.val

ResultFields ==
    {"keywords", "density_info", "entities", "noun_chunks", "meta_title",
     "meta_description", "reading_score", "reading_grade"}

IsNum(v) == Len(v) = 1

Complete(res) ==
    /\ DOMAIN res = ResultFields
    /\ Len(res.density_info) = Len(res.keywords)
    /\ EndsWith(res.meta_title, Ellipsis)
    /\ EndsWith(res.meta_description, Ellipsis)
    /\ \/ IsNum(res.reading_score) /\ IsNum(res.reading_grade)
       \/ res.reading_score = NA /\ res.reading_grade = NA

\* C5: analyze_text never raises and returns either a complete 8-field result
\* or exactly the all-empty result; with a model unavailable, the all-empty one.
C5_CompleteOrAllEmpty ==
    out.done =>
        /\ ~out.r.exc
        /\ out.r.val = EmptyResult \/ Complete(out.r.val)
        /\ (nlp = "None" \/ kw_model = "None") => out.r.val = EmptyResult

C5_Witness ==
    /\ out.done
    /\ nlp # "None"
    /\ kw_model = "None"
    /\ inp = CatsText
    /\ out.r.val = EmptyResult

Occurrences(tokens, w) == Cardinality({j \in 1..Len(tokens) : tokens[j] = w})

Within(d, c, n) ==
    /\ d >= 0
    /\ d <= 10000
    /\ 2 * (d * n - 10000 * c) <= n
    /\ 2 * (10000 * c - d * n) <= n

\* C6: for a text with at least one token, each keyword's density is
\* 100 * (tokens of the lower-cased text equal to the lower-cased keyword) /
\* (number of tokens), rounded to 2 decimals, within [0, 100].
C6_DensityFormula ==
    (out.done /\ nlp # "None" /\ kw_model # "None" /\ SplitWs(inp) # <<>>) =>
        /\ Len(out.r.val.density_info) = Len(out.r.val.keywords)
        /\ \A i \in 1..Len(out.r.val.keywords) :
              Within(out.r.val.density_info[i].density,
                     Occurrences(SplitWs(Lower(inp)), Lower(out.r.val.keywords[i].kw)),
                     Len(SplitWs(Lower(inp))))

C6_Witness ==
    /\ out.done
    /\ kw_model = "kwMixed"
    /\ \E i \in 1..Len(out.r.val.density_info) :
          /\ out.r.val.density_info[i].kw = <<"B">>
          /\ out.r.val.density_info[i].density = 6667

FirstSentenceEnd(text) ==
    IF Contains(text, ".")
    THEN (CHOOSE p \in 1..Len(text) :
             text[p] = "." /\ \A q \in 1..(p - 1) : text[q] # ".") - 1
    ELSE Len(text)

Min(a, b) == IF a < b THEN a ELSE b

\* C7: when analyze_text completes, meta_title is the text before the first
\* period cut to 60 characters plus "..." and meta_description the trimmed
\* text cut to 160 characters plus "...", whatever its length.
C7_MetaTitleAndDescription ==
    (out.done /\ out.r.errs = <<>>) =>
        /\ out.r.val.meta_title
              = SubSeq(inp, 1, Min(TitleLen, FirstSentenceEnd(inp))) \o Ellipsis
        /\ Len(out.r.val.meta_title) <= 63
        /\ out.r.val.meta_description
              = SubSeq(Strip(inp), 1, Min(DescLen, Len(Strip(inp)))) \o Ellipsis
        /\ Len(out.r.val.meta_description) <= 163
        /\ out.r.val.meta_description # <<>>

C7_Witness ==
    /\ out.done
    /\ out.r.errs = <<>>
    /\ Len(inp) > DescLen
    /\ Len(out.r.val.meta_title) = 63
    /\ Len(out.r.val.meta_description) = 163

\* C8: for a document without sentences, such as the empty text, the meta
\* title produced by analyze_text is "N/A".
C8_EmptyTextTitleIsNA ==
    \A i \in 1..Len(analyzeLog) :
        analyzeLog[i].text = <<>> => analyzeLog[i].result.meta_title = NA

\* C9: extract_text_from_file never propagates an exception: a .txt file
\* yields its UTF-8 decoded content, a .docx file its paragraphs joined with
\* newlines, any other file the empty text without an error, and a decode or
\* parse exception the empty text.
C9_FileDispatch ==
    out.done =>
        /\ ~out.r.exc
        /\ (EndsWith(inp.name, DotTxt) /\ ~decode_utf8(inp.bytes).exc)
              => out.r.val = decode_utf8(inp.bytes).val
        /\ (EndsWith(inp.name, DotTxt) /\ decode_utf8(inp.bytes).exc)
              => out.r.val = <<>>
        /\ (inp.name = NameTxt /\ inp.bytes = <<97, 195, 169>>)
              => out.r.val = <<"a", "e_acute">>
        /\ (EndsWith(inp.name, DotDocx) /\ ~inp.docx.exc)
              => out.r.val = Join(<<"\n">>, inp.docx.paragraphs)
        /\ (EndsWith(inp.name, DotDocx) /\ inp.docx.exc) => out.r.val = <<>>
        /\ (~EndsWith(inp.name, DotTxt) /\ ~EndsWith(inp.name, DotDocx))
              => out.r.val = <<>> /\ out.r.errs = <<>>

C9_Witness ==
    /\ out.done
    /\ inp.name = NameTxt
    /\ inp.bytes = <<97, 255>>
    /\ out.r.val = <<>>
    /\ out.r.errs # <<>>

\* C10: in every result of analyze_text the density list has one entry per
\* keyword, in the keywords' order and with the keywords' phrases.
C10_DensityAlignedWithKeywords ==
    out.done =>
        /\ Len(out.r.val.density_info) = Len(out.r.val.keywords)
        /\ \A i \in 1..Len(out.r.val.keywords) :
              /\ i <= Len(out.r.val.density_info)
              /\ out.r.val.density_info[i].kw = out.r.val.keywords[i].kw

C10_Witness ==
    /\ out.done
    /\ Len(out.r.val.keywords) >= 3
    /\ \E i \in 1..Len(out.r.val.density_info) : out.r.val.density_info[i].density = 0
    /\ \E i \in 1..Len(out.r.val.density_info) : out.r.val.density_info[i].density > 0

====
